---- MODULE Spec2Model ----
(***************************************************************************)
(* A model of the uscan lexical scanner (src/src/scanner.rs).              *)
(*                                                                         *)
(* A character is a one-element string; a text (&str, String, Vec<char>)   *)
(* is a sequence of characters.  Positions are 0-based as in the code:     *)
(* At(i) is data.source[i].  str::len() is the UTF-8 byte length of a      *)
(* text (str_len), Vec::len() the number of characters (Len).              *)
(***************************************************************************)
EXTENDS Integers, Sequences, FiniteSets, TLC

VARIABLES
    source,        \* ScannerData::source, the decoded characters
    config,        \* the ScannerConfig handed to run
    start,         \* Scanner::start
    current,       \* Scanner::current
    line,          \* Scanner::line
    token_types,   \* ScannerData::token_types
    token_lines,   \* ScannerData::token_lines
    token_start,   \* ScannerData::token_start
    token_len,     \* ScannerData::token_len
    result         \* where run is: Idle, Running, Ok, an error, or a panic

vars == <<source, config, start, current, line,
          token_types, token_lines, token_start, token_len, result>>

(***************************************************************************)
(* Characters                                                              *)
(***************************************************************************)
a_grave == "U+00E0"   \* the character a-grave of the tests (2 bytes in UTF-8)
backtick == "U+0060"  \* the grave accent, code 96

\* The printable ASCII characters in code order, from 32 (space) to 126 (~).
Printable ==
    << " ", "!", "\"", "#", "$", "%", "&", "'", "(", ")", "*", "+", ",", "-", ".", "/",
       "0", "1", "2", "3", "4", "5", "6", "7", "8", "9", ":", ";", "<", "=", ">", "?",
       "@", "A", "B", "C", "D", "E", "F", "G", "H", "I", "J", "K", "L", "M", "N", "O",
       "P", "Q", "R", "S", "T", "U", "V", "W", "X", "Y", "Z", "[", "\\", "]", "^", "_",
       backtick, "a", "b", "c", "d", "e", "f", "g", "h", "i", "j", "k", "l", "m", "n", "o",
       "p", "q", "r", "s", "t", "u", "v", "w", "x", "y", "z", "{", "|", "}", "~" >>

Chars == {Printable[i] : i \in 1..Len(Printable)} \cup {"\t", "\n", "\r", a_grave}

\* The Unicode scalar value of a character (c as u32).
CharCode ==
    [c \in Chars |->
        IF c = "\t" THEN 9
        ELSE IF c = "\n" THEN 10
        ELSE IF c = "\r" THEN 13
        ELSE IF c = a_grave THEN 224
        ELSE 31 + (CHOOSE i \in 1..Len(Printable) : Printable[i] = c)]

\* char::len_utf8
len_utf8(c) ==
    IF CharCode[c] < 128 THEN 1
    ELSE IF CharCode[c] < 2048 THEN 2
    ELSE IF CharCode[c] < 65536 THEN 3 ELSE 4

\* str::len: the length of a text in bytes
RECURSIVE str_len(_)
str_len(s) == IF s = <<>> THEN 0 ELSE len_utf8(Head(s)) + str_len(Tail(s))

is_digit(c) == CharCode[c] >= CharCode["0"] /\ CharCode[c] <= CharCode["9"]

is_alpha(c) ==
    \/ (CharCode[c] >= CharCode["a"] /\ CharCode[c] <= CharCode["z"])
    \/ (CharCode[c] >= CharCode["A"] /\ CharCode[c] <= CharCode["Z"])
    \/ c = "_"

is_alphanum(c) == is_digit(c) \/ is_alpha(c)

is_space(c) == c = " " \/ c = "\t" \/ c = "\r"

(***************************************************************************)
(* Tokens, options and results                                             *)
(***************************************************************************)
Symbol(s)           == [type |-> "Symbol", text |-> s]
Identifier(s)       == [type |-> "Identifier", text |-> s]
StringLiteral(s)    == [type |-> "StringLiteral", text |-> s]
\* The f64 value is kept exactly, as the fraction num / div.
NumberLiteral(s, n, d) == [type |-> "NumberLiteral", text |-> s, num |-> n, div |-> d]
Keyword(s)          == [type |-> "Keyword", text |-> s]
Comment(s)          == [type |-> "Comment", text |-> s]
Ignore              == [type |-> "Ignore"]
NewLine             == [type |-> "NewLine"]
Eof                 == [type |-> "Eof"]
Unknown             == [type |-> "Unknown"]

OptSome(s) == [some |-> TRUE, val |-> s]
OptNone    == [some |-> FALSE, val |-> <<>>]

\* What a sub-scanner hands back: Option<TokenType> (Some, None), an Err of
\* scan_string, or a panic of the Rust runtime; self is the cursor it leaves.
RetSome(tok, self) == [ret |-> "Some", token |-> tok, self |-> self]
RetNone(self)      == [ret |-> "None", self |-> self]
RetPanic(msg)      == [ret |-> "Panic", msg |-> msg]

source_len == Len(source)
At(i) == source[i + 1]
\* data.source[a..b]
Slice(a, b) == SubSeq(source, a + 1, b)

(***************************************************************************)
(* The sub-scanners.  self is the cursor [start, current, line]; each      *)
(* returns the cursor it leaves behind together with its answer.           *)
(***************************************************************************)

\* Scanner::matches: s is a character-by-character prefix of the source at
\* self.current; each comparison is bounds-checked.
matches(s, self) ==
    \A i \in 0..(Len(s) - 1) :
        ~(self.current + i >= source_len \/ At(self.current + i) # s[i + 1])

\* The while loop of scan_single_line_comment: the first position at or
\* after cur that is the end of the source or holds a newline.
RECURSIVE SkipToNewline(_)
SkipToNewline(cur) ==
    IF cur < source_len /\ At(cur) # "\n" THEN SkipToNewline(cur + 1) ELSE cur

\* Scanner::scan_single_line_comment
scan_single_line_comment(self) ==
    LET cur == SkipToNewline(self.current) + 1
    IN  RetSome(Comment(Slice(self.start, cur - 1)),
                [self EXCEPT !.current = cur, !.line = self.line + 1])

\* The loop of scan_multi_line_comment looking for markers inside quoted
\* strings as well
RECURSIVE MultiLineLoop_ignoring_quotes(_, _, _, _, _, _)
MultiLineLoop_ignoring_quotes(multi_start, multi_end, self, level, in_string, escape) ==
    IF ~(self.current < source_len) THEN RetNone(self)
    ELSE
      LET c    == At(self.current)
          step == [self EXCEPT !.current = self.current + 1]
      IN
      IF c = "\n" THEN
          MultiLineLoop_ignoring_quotes(multi_start, multi_end,
                        [step EXCEPT !.line = self.line + 1], level, in_string, escape)
      ELSE IF c = "\\" /\ ~escape THEN
          MultiLineLoop_ignoring_quotes(multi_start, multi_end, step, level, in_string, TRUE)
      ELSE IF matches(multi_end, self) THEN
          LET at_end == [self EXCEPT !.current = self.current + str_len(multi_end) - 1]
          IN  IF level - 1 = 0
              THEN RetSome(Comment(Slice(self.start, at_end.current - 1)), at_end)
              ELSE MultiLineLoop_ignoring_quotes(multi_start, multi_end,
                                 [at_end EXCEPT !.current = at_end.current + 1],
                                 level - 1, in_string, FALSE)
      ELSE IF matches(multi_start, self) THEN
          MultiLineLoop_ignoring_quotes(multi_start, multi_end,
                        [self EXCEPT !.current = self.current + str_len(multi_start) - 1 + 1],
                        level + 1, in_string, FALSE)
      ELSE MultiLineLoop_ignoring_quotes(multi_start, multi_end, step, level, in_string, FALSE)

\* The while loop of scan_multi_line_comment, from the cursor self with the
\* locals level, in_string and escape.
RECURSIVE MultiLineLoop(_, _, _, _, _, _)
MultiLineLoop(multi_start, multi_end, self, level, in_string, escape) ==
    IF ~(self.current < source_len) THEN RetNone(self)
    ELSE
      LET c    == At(self.current)
          step == [self EXCEPT !.current = self.current + 1]
      IN
      IF c = "\n" THEN
          MultiLineLoop(multi_start, multi_end,
                        [step EXCEPT !.line = self.line + 1], level, in_string, escape)
      ELSE IF c = "\\" /\ ~escape THEN
          MultiLineLoop(multi_start, multi_end, step, level, in_string, TRUE)
      ELSE IF c = "\"" /\ ~escape THEN
          MultiLineLoop(multi_start, multi_end, step, level, ~in_string, FALSE)
      ELSE IF ~in_string THEN
          IF matches(multi_end, self) THEN
              LET at_end == [self EXCEPT !.current = self.current + str_len(multi_end) - 1]
              IN  IF level - 1 = 0
                  THEN RetSome(Comment(Slice(self.start, at_end.current - 1)), at_end)
                  ELSE MultiLineLoop(multi_start, multi_end,
                                     [at_end EXCEPT !.current = at_end.current + 1],
                                     level - 1, in_string, FALSE)
          ELSE IF matches(multi_start, self) THEN
              MultiLineLoop(multi_start, multi_end,
                            [self EXCEPT !.current = self.current + str_len(multi_start) - 1 + 1],
                            level + 1, in_string, FALSE)
          ELSE MultiLineLoop(multi_start, multi_end, step, level, in_string, FALSE)
      ELSE MultiLineLoop(multi_start, multi_end, step, level, in_string, FALSE)

\* Scanner::scan_multi_line_comment
scan_multi_line_comment(multi_start, multi_end, self) ==
    MultiLineLoop(multi_start, multi_end, self, 0, FALSE, FALSE)

\* Scanner::scan_comment
scan_comment(self) ==
    IF /\ config.multi_line_cmt_start.some
       /\ matches(config.multi_line_cmt_start.val, self)
       /\ config.multi_line_cmt_end.some
    THEN scan_multi_line_comment(config.multi_line_cmt_start.val,
                                 config.multi_line_cmt_end.val, self)
    ELSE IF config.single_line_cmt.some /\ matches(config.single_line_cmt.val, self)
    THEN scan_single_line_comment(self)
    ELSE RetNone(self)

\* Scanner::scan_newline; data.source[self.current] panics past the end.
scan_newline(self) ==
    IF self.current >= source_len THEN RetPanic("index out of bounds")
    ELSE IF At(self.current) = "\n"
    THEN RetSome(NewLine, [self EXCEPT !.current = self.current + 1,
                                       !.line = self.line + 1])
    ELSE RetNone(self)

\* The while loop of scan_space
RECURSIVE SkipSpaces(_)
SkipSpaces(cur) ==
    IF cur < source_len /\ is_space(At(cur)) THEN SkipSpaces(cur + 1) ELSE cur

\* Scanner::scan_space
scan_space(self) ==
    LET cur == SkipSpaces(self.current)
    IN  IF self.current = cur THEN RetNone(self)
        ELSE RetSome(Ignore, [self EXCEPT !.current = cur])

\* The for loop of scan_symbol, from entry i of config.symbols (1-based).
RECURSIVE SymbolLoop(_, _)
SymbolLoop(i, self) ==
    IF i > Len(config.symbols) THEN RetNone(self)
    ELSE IF matches(config.symbols[i], self)
    THEN RetSome(Symbol(config.symbols[i]),
                 [self EXCEPT !.current = self.current + str_len(config.symbols[i])])
    ELSE SymbolLoop(i + 1, self)

\* scan_symbol preferring the longest symbol that matches over the first
scan_symbol_longest(self) ==
    LET hits == {i \in 1..Len(config.symbols) : matches(config.symbols[i], self)}
    IN  IF hits = {} THEN RetNone(self)
        ELSE LET best == CHOOSE i \in hits :
                            \A j \in hits : Len(config.symbols[j]) <= Len(config.symbols[i])
             IN  RetSome(Symbol(config.symbols[best]),
                         [self EXCEPT !.current = self.current + str_len(config.symbols[best])])

\* Scanner::scan_symbol
scan_symbol(self) == SymbolLoop(1, self)

\* The condition of scan_keyword without its boundary check
keyword_at_unbounded(s, self) == matches(s, self)

\* The condition of scan_keyword on the keyword s
keyword_at(s, self) ==
    LET keyword_len == str_len(s)
    IN  /\ matches(s, self)
        /\ (\/ self.current + keyword_len >= source_len
            \/ ~is_alphanum(At(self.current + keyword_len)))

\* The for loop of scan_keyword, from entry i of config.keywords (1-based).
RECURSIVE KeywordLoop(_, _)
KeywordLoop(i, self) ==
    IF i > Len(config.keywords) THEN RetNone(self)
    ELSE IF keyword_at(config.keywords[i], self)
    THEN RetSome(Keyword(config.keywords[i]),
                 [self EXCEPT !.current = self.current + str_len(config.keywords[i])])
    ELSE KeywordLoop(i + 1, self)

\* Scanner::scan_keyword
scan_keyword(self) == KeywordLoop(1, self)

\* The while loop of scan_identifier: the end of the run of alphanumerics.
RECURSIVE SkipAlphanum(_)
SkipAlphanum(cur) ==
    IF cur < source_len /\ is_alphanum(At(cur)) THEN SkipAlphanum(cur + 1) ELSE cur

\* Scanner::scan_identifier
scan_identifier(self) ==
    IF is_alpha(At(self.current))
    THEN LET cur == SkipAlphanum(self.current)
         IN  RetSome(Identifier(Slice(self.current, cur)),
                     [self EXCEPT !.current = cur])
    ELSE RetNone(self)

\* The loop of scan_string copying the backslash of an escape into the value
RECURSIVE StringLoop_keeping_backslash(_, _, _)
StringLoop_keeping_backslash(self, escape, value) ==
    IF ~(self.current < source_len) THEN [ret |-> "Eof", value |-> value, self |-> self]
    ELSE
      LET c    == At(self.current)
          step == [self EXCEPT !.current = self.current + 1]
      IN
      IF c = "\\" /\ ~escape THEN StringLoop_keeping_backslash(step, TRUE, Append(value, c))
      ELSE IF c = "\"" /\ ~escape THEN RetSome(StringLiteral(value), step)
      ELSE StringLoop_keeping_backslash(
                IF c = "\n" THEN [step EXCEPT !.line = self.line + 1] ELSE step,
                FALSE, Append(value, c))

\* The loop of scan_string without the translation of the escapes n and t
RECURSIVE StringLoop_raw_escapes(_, _, _)
StringLoop_raw_escapes(self, escape, value) ==
    IF ~(self.current < source_len) THEN [ret |-> "Eof", value |-> value, self |-> self]
    ELSE
      LET c    == At(self.current)
          step == [self EXCEPT !.current = self.current + 1]
      IN
      IF c = "\\" /\ ~escape THEN StringLoop_raw_escapes(step, TRUE, value)
      ELSE IF c = "\"" /\ ~escape THEN RetSome(StringLiteral(value), step)
      ELSE StringLoop_raw_escapes(
                IF c = "\n" THEN [step EXCEPT !.line = self.line + 1] ELSE step,
                FALSE, Append(value, c))

\* The while loop of scan_string, from the cursor self with the locals
\* escape and value; ret "Eof" is the fall out of the loop at the end of input.
RECURSIVE StringLoop(_, _, _)
StringLoop(self, escape, value) ==
    IF ~(self.current < source_len) THEN [ret |-> "Eof", value |-> value, self |-> self]
    ELSE
      LET c    == At(self.current)
          step == [self EXCEPT !.current = self.current + 1]
      IN
      IF c = "\\" /\ ~escape THEN StringLoop(step, TRUE, value)
      ELSE IF c = "\"" /\ ~escape THEN RetSome(StringLiteral(value), step)
      ELSE IF c = "n" /\ escape THEN StringLoop(step, FALSE, Append(value, "\n"))
      ELSE IF c = "t" /\ escape THEN StringLoop(step, FALSE, Append(value, "\t"))
      ELSE StringLoop(IF c = "\n" THEN [step EXCEPT !.line = self.line + 1] ELSE step,
                      FALSE, Append(value, c))

\* scan_string recording the partial literal without the + 1 of its length
scan_string_short(self, data) ==
    IF At(self.current) = "\"" THEN
        LET r == StringLoop([self EXCEPT !.current = self.current + 1], FALSE, <<>>)
        IN  IF r.ret = "Some" THEN [ret |-> "Some", token |-> r.token,
                                    self |-> r.self, data |-> data]
            ELSE [ret |-> "Err", self |-> r.self,
                  data |-> [token_len   |-> Append(data.token_len, source_len - r.self.start),
                            token_start |-> Append(data.token_start, r.self.start),
                            token_types |-> Append(data.token_types, StringLiteral(r.value)),
                            token_lines |-> Append(data.token_lines, r.self.line)],
                  err |-> [kind |-> "UnexpectedEof", line |-> r.self.line,
                           offset |-> r.self.start]]
    ELSE [ret |-> "None", self |-> self, data |-> data]

\* Scanner::scan_string.  At the end of input inside the literal it pushes
\* the partial StringLiteral itself and returns Err(UnexpectedEof).
scan_string(self, data) ==
    IF At(self.current) = "\"" THEN
        LET r == StringLoop([self EXCEPT !.current = self.current + 1], FALSE, <<>>)
        IN  IF r.ret = "Some" THEN [ret |-> "Some", token |-> r.token,
                                    self |-> r.self, data |-> data]
            ELSE LET pushed ==
                       [token_len   |-> Append(data.token_len, source_len - r.self.start + 1),
                        token_start |-> Append(data.token_start, r.self.start),
                        token_types |-> Append(data.token_types, StringLiteral(r.value)),
                        token_lines |-> Append(data.token_lines, r.self.line)]
                     token_id == Len(pushed.token_len) - 1
                 IN  [ret |-> "Err", self |-> r.self, data |-> pushed,
                      err |-> [kind |-> "UnexpectedEof", line |-> r.self.line,
                               offset |-> pushed.token_start[token_id + 1]]]
    ELSE [ret |-> "None", self |-> self, data |-> data]

\* (c as u8) - b'0', (c as u8) - b'a' + 10, (c as u8) - b'A' + 10
digit_value(c) == CharCode[c] - CharCode["0"]
lower_hex_value(c) == CharCode[c] - CharCode["a"] + 10
upper_hex_value(c) == CharCode[c] - CharCode["A"] + 10

\* The loop of scan_binary_number: [current, value, number] when it breaks.
RECURSIVE BinaryLoop(_, _, _)
BinaryLoop(cur, value, number) ==
    LET c == At(cur)
    IN  IF c = "0" \/ c = "1"
        THEN IF cur + 1 = source_len
             THEN [current |-> cur + 1, value |-> Append(value, c),
                   number |-> number * 2 + digit_value(c)]
             ELSE BinaryLoop(cur + 1, Append(value, c), number * 2 + digit_value(c))
        ELSE [current |-> cur, value |-> value, number |-> number]

\* Scanner::scan_binary_number
scan_binary_number(self) ==
    LET r == BinaryLoop(self.current, <<>>, 0)
    IN  RetSome(NumberLiteral(<<"0", "b">> \o r.value, r.number, 1),
                [self EXCEPT !.current = r.current])

\* The match of scan_hex_number: the value of a hexadecimal digit, -1 for
\* any other character (the arm that breaks).
hex_digit(c) ==
    IF is_digit(c) THEN digit_value(c)
    ELSE IF c \in {"a", "b", "c", "d", "e", "f"} THEN lower_hex_value(c)
    ELSE IF c \in {"A", "B", "C", "D", "E", "F"} THEN upper_hex_value(c)
    ELSE -1

\* The loop of scan_hex_number
RECURSIVE HexLoop(_, _, _)
HexLoop(cur, value, number) ==
    LET c == At(cur)
    IN  IF hex_digit(c) >= 0
        THEN IF cur + 1 = source_len
             THEN [current |-> cur + 1, value |-> Append(value, c),
                   number |-> number * 16 + hex_digit(c)]
             ELSE HexLoop(cur + 1, Append(value, c), number * 16 + hex_digit(c))
        ELSE [current |-> cur, value |-> value, number |-> number]

\* scan_hex_number giving the literal the two characters of the source as
\* its prefix
scan_hex_number_keeping_prefix(self) ==
    LET r == HexLoop(self.current, <<>>, 0)
    IN  RetSome(NumberLiteral(Slice(self.current - 2, self.current) \o r.value, r.number, 1),
                [self EXCEPT !.current = r.current])

\* Scanner::scan_hex_number
scan_hex_number(self) ==
    LET r == HexLoop(self.current, <<>>, 0)
    IN  RetSome(NumberLiteral(<<"0", "x">> \o r.value, r.number, 1),
                [self EXCEPT !.current = r.current])

\* The two digit loops of scan_number (integer part, fractional part).
RECURSIVE DigitLoop(_, _, _, _)
DigitLoop(cur, value, number, div) ==
    IF cur < source_len /\ is_digit(At(cur))
    THEN DigitLoop(cur + 1, Append(value, At(cur)), number * 10 + digit_value(At(cur)), div * 10)
    ELSE [current |-> cur, value |-> value, number |-> number, div |-> div]

\* The model's stand-in for 2^64 (2^32 on a 32-bit target): usize values
\* wrap modulo it; it exceeds every length and position of the model.
UsizeModulus == 1073741824

\* a - b on usize when overflow checks are off (release profile)
wrapping_sub(a, b) == (a - b) % UsizeModulus

\* The decimal part of scan_number (lines 271-295)
scan_decimal(self) ==
    LET int == DigitLoop(self.current, <<>>, 0, 1)
    IN  IF /\ int.current < source_len - 1
           /\ At(int.current) = "."
           /\ is_digit(At(int.current + 1))
        THEN LET frac == DigitLoop(int.current + 1, Append(int.value, "."), int.number, 1)
             IN  RetSome(NumberLiteral(frac.value, frac.number, frac.div),
                         [self EXCEPT !.current = frac.current])
        ELSE RetSome(NumberLiteral(int.value, int.number, 1),
                     [self EXCEPT !.current = int.current])

\* Scanner::scan_number.  source_len - 2 underflows on a source of one
\* character: a panic with overflow checks on (debug profile), a wrap to a
\* huge value with them off (release profile).
scan_number(self, overflow_checks) ==
    IF is_digit(At(self.current)) THEN
        IF source_len < 2 /\ overflow_checks
        THEN RetPanic("attempt to subtract with overflow")
        ELSE IF self.current < wrapping_sub(source_len, 2) THEN
            IF self.current + 1 >= source_len THEN RetPanic("index out of bounds")
            ELSE IF At(self.current + 1) = "x" \/ At(self.current + 1) = "X"
            THEN scan_hex_number([self EXCEPT !.current = self.current + 2])
            ELSE IF At(self.current + 1) = "b" \/ At(self.current + 1) = "B"
            THEN scan_binary_number([self EXCEPT !.current = self.current + 2])
            ELSE scan_decimal(self)
        ELSE scan_decimal(self)
    ELSE RetNone(self)

\* add_token with the push onto token_lines left out
add_token_without_line(self, token, data) ==
    LET len == self.current - self.start
    IN  [self |-> [self EXCEPT !.start = self.current],
         data |-> [token_start |-> Append(data.token_start, self.start),
                   token_len   |-> Append(data.token_len, len),
                   token_types |-> Append(data.token_types, token),
                   token_lines |-> data.token_lines]]

\* add_token without the move of self.start to self.current
add_token_keeping_start(self, token, data) ==
    LET len == self.current - self.start
    IN  [self |-> self,
         data |-> [token_start |-> Append(data.token_start, self.start),
                   token_len   |-> Append(data.token_len, len),
                   token_types |-> Append(data.token_types, token),
                   token_lines |-> Append(data.token_lines, self.line)]]

\* Scanner::add_token
add_token(self, token, data) ==
    LET len == self.current - self.start
    IN  [self |-> [self EXCEPT !.start = self.current],
         data |-> [token_start |-> Append(data.token_start, self.start),
                   token_len   |-> Append(data.token_len, len),
                   token_types |-> Append(data.token_types, token),
                   token_lines |-> Append(data.token_lines, self.line)]]

\* What scan_token returns: Ok(token), Err(error) or a panic, with the
\* cursor and the output record as it leaves them.
TokOk(tok, self, data)    == [res |-> "Ok", token |-> tok, self |-> self, data |-> data]
TokErr(err, self, data)   == [res |-> "Err", err |-> err, self |-> self, data |-> data]
TokPanic(msg, self, data) == [res |-> "Panic", msg |-> msg, self |-> self, data |-> data]

\* The failure path of scan_token emptying the record before its push
unknown_token_clearing(self, data) ==
    [res |-> "Err",
     err |-> [kind |-> "UnknownToken", line |-> self.line, offset |-> self.current],
     self |-> self,
     data |-> [token_len |-> <<1>>, token_start |-> <<self.current>>,
               token_types |-> <<Unknown>>, token_lines |-> <<self.line>>]]

\* The failure path of scan_token recording the pending start, not the
\* position of the character
unknown_token_at_start(self, data) ==
    [res |-> "Err",
     err |-> [kind |-> "UnknownToken", line |-> self.line, offset |-> self.start],
     self |-> self,
     data |-> [token_len   |-> Append(data.token_len, 1),
               token_start |-> Append(data.token_start, self.start),
               token_types |-> Append(data.token_types, Unknown),
               token_lines |-> Append(data.token_lines, self.line)]]

\* The failure path of scan_token (lines 174-182): a one-character Unknown
\* entry at the current position and Err(UnknownToken).
unknown_token(self, data) ==
    LET pushed == [token_len   |-> Append(data.token_len, 1),
                   token_start |-> Append(data.token_start, self.current),
                   token_types |-> Append(data.token_types, Unknown),
                   token_lines |-> Append(data.token_lines, self.line)]
        token_id == Len(pushed.token_len) - 1
    IN  TokErr([kind |-> "UnknownToken", line |-> self.line,
                offset |-> pushed.token_start[token_id + 1]], self, pushed)

\* Scanner::scan_token: the classifiers in their fixed order, first match
\* wins.  It is written from its last classifier to its first: after_X takes
\* the answer of classifier X (and the cursor and record X was called with)
\* and either returns or goes on to the next classifier.
after_number(num, self, data) ==
    IF num.ret = "Panic" THEN TokPanic(num.msg, self, data)
    ELSE IF num.ret = "Some" THEN TokOk(num.token, num.self, data)
    ELSE unknown_token(num.self, data)

after_identifier(id, data, overflow_checks) ==
    IF id.ret = "Some" THEN TokOk(id.token, id.self, data)
    ELSE after_number(scan_number(id.self, overflow_checks), id.self, data)

after_string(str, overflow_checks) ==
    IF str.ret = "Err" THEN TokErr(str.err, str.self, str.data)
    ELSE IF str.ret = "Some" THEN TokOk(str.token, str.self, str.data)
    ELSE after_identifier(scan_identifier(str.self), str.data, overflow_checks)

after_keyword(kw, data, overflow_checks) ==
    IF kw.ret = "Some" THEN TokOk(kw.token, kw.self, data)
    ELSE after_string(scan_string(kw.self, data), overflow_checks)

after_symbol(sym, data, overflow_checks) ==
    IF sym.ret = "Some" THEN TokOk(sym.token, sym.self, data)
    ELSE after_keyword(scan_keyword(sym.self), data, overflow_checks)

after_space(sp, data, overflow_checks) ==
    IF sp.ret = "Some" THEN TokOk(sp.token, sp.self, data)
    ELSE after_symbol(scan_symbol(sp.self), data, overflow_checks)

after_newline(nl, self, data, overflow_checks) ==
    IF nl.ret = "Panic" THEN TokPanic(nl.msg, self, data)
    ELSE IF nl.ret = "Some" THEN TokOk(nl.token, nl.self, data)
    ELSE after_space(scan_space(nl.self), data, overflow_checks)

after_comment(cmt, data, overflow_checks) ==
    IF cmt.ret = "Some" THEN TokOk(cmt.token, cmt.self, data)
    ELSE after_newline(scan_newline(cmt.self), cmt.self, data, overflow_checks)

scan_token(self, data, overflow_checks) ==
    IF self.current >= source_len THEN TokOk(Eof, self, data)
    ELSE after_comment(scan_comment(self), data, overflow_checks)

(***************************************************************************)
(* Configurations and inputs                                               *)
(***************************************************************************)

\* LUA_CONFIG of the tests
LUA_CONFIG ==
    [keywords |-> << <<"a", "n", "d">>,
         <<"b", "r", "e", "a", "k">>,
         <<"d", "o">>,
         <<"e", "l", "s", "e">>,
         <<"e", "l", "s", "e", "i", "f">>,
         <<"e", "n", "d">>,
         <<"f", "a", "l", "s", "e">>,
         <<"f", "o", "r">>,
         <<"f", "u", "n", "c", "t", "i", "o", "n">>,
         <<"i", "f">>,
         <<"i", "n">>,
         <<"l", "o", "c", "a", "l">>,
         <<"n", "i", "l">>,
         <<"n", "o", "t">>,
         <<"o", "r">>,
         <<"r", "e", "p", "e", "a", "t">>,
         <<"r", "e", "t", "u", "r", "n">>,
         <<"t", "h", "e", "n">>,
         <<"t", "r", "u", "e">>,
         <<"u", "n", "t", "i", "l">>,
         <<"w", "h", "i", "l", "e">> >>,
     symbols |-> << <<".", ".", ".">>,
         <<".", ".">>,
         <<"=", "=">>,
         <<"~", "=">>,
         <<"<", "=">>,
         <<">", "=">>,
         <<"+">>,
         <<"-">>,
         <<"*">>,
         <<"/">>,
         <<"%">>,
         <<"^">>,
         <<"#">>,
         <<"<">>,
         <<">">>,
         <<"=">>,
         <<"(">>,
         <<")">>,
         <<"{">>,
         <<"}">>,
         <<"[">>,
         <<"]">>,
         <<";">>,
         <<":">>,
         <<",">>,
         <<".">> >>,
     single_line_cmt |-> OptSome(<<"-", "-">>),
     multi_line_cmt_start |-> OptSome(<<"-", "-", "[", "[">>),
     multi_line_cmt_end |-> OptSome(<<"]", "]">>)]

\* A second configuration a caller may hand in: no multi-line comments, a
\* keyword that extends another by one character, and "." listed before "..".
ALT_CONFIG ==
    [keywords |-> << <<"i", "n", "t">>, <<"i", "n">> >>,
     symbols |-> << <<".">>, <<".", ".">>, <<"=">> >>,
     single_line_cmt |-> OptSome(<<"#">>),
     multi_line_cmt_start |-> OptNone,
     multi_line_cmt_end |-> OptNone]

Configs == {LUA_CONFIG, ALT_CONFIG}

\* The source of tests::it_works
SourceA ==
    << "\n", " ", " ", " ", " ", " ", " ", " ", " ", " ", " ", " ", " ", "f",
       "u", "n", "c", "t", "i", "o", "n", " ", "t", "e", "s", "t", "(", "p",
       "1", ",", "p", "2", ")", "\n", " ", " ", " ", " ", " ", " ", " ", " ",
       " ", " ", " ", " ", " ", " ", " ", " ", "r", "e", "t", "u", "r", "n",
       " ", "p", "1", "+", "p", "2", "\n", " ", " ", " ", " ", " ", " ", " ",
       " ", " ", " ", " ", " ", "e", "n", "d", "\n", " ", " ", " ", " ", " ",
       " ", " ", " " >>

\* The source of tests::unicode_works
SourceB ==
    << "l", "o", "c", "a", "l", " ", "s", "=", "\"", a_grave, "\"", " ", "-", "-",
       " ", "c", "o", "m", "m", "e", "n", "t" >>

\* The source of tests::while_typing
SourceC ==
    << "l", "o", "c", "a", "l", " ", "s", "=", "\"", a_grave >>

\* The source of tests::multi_comments
SourceD ==
    << "l", "o", "c", "a", "l", " ", "s", "=", "\"", "\"", " ", "-", "-", "[",
       "[", "c", "o", "m", "m", "e", "n", "t", "]", "]" >>

AlphaNum == {c \in Chars : is_alphanum(c)}

\* Every keyword of cfg followed by one alphanumeric character
KeywordBoundarySources(cfg) ==
    {Append(cfg.keywords[i], c) : i \in 1..Len(cfg.keywords), c \in AlphaNum}

\* The pieces the bounded sources are built from
Fragments ==
    { <<"a">>, <<"1">>, <<" ">>, <<"\n">>, <<"\"">>, <<"\\">>,
      <<"-", "-">>, <<"-", "-", "[", "[">>, <<"]", "]">> }

\* The largest number of pieces in a bounded source
MaxFrags == 3

\* All concatenations of at most n pieces
RECURSIVE FragSources(_)
FragSources(n) ==
    IF n = 0 THEN {<<>>}
    ELSE LET shorter == FragSources(n - 1)
         IN  shorter \cup {s \o f : s \in shorter, f \in Fragments}

\* Further sources: symbols that are prefixes of one another, numbers in
\* the three notations, keywords at the end of input
ExtraSources ==
    { <<".", ".">>, <<".">>, <<".", ".", ".">>, <<".", ".", ".", ".">>, <<"=", "=", "=">>,
      <<"5", "x", "1", "F">>, <<"0", "x", "f", "f", " ">>, <<"0", "b", "1", "0", "1">>,
      <<"0", "x", "g">>, <<"1", "2", ".", "5">>, <<"1", ".">>, <<"7">>, <<"4", "2">>,
      <<"e", "n", "d">>, <<"i", "n">>, <<"i", "n", "t">>, <<"i", "n", " ", "x">>,
      <<"a", ".", ".", "b">>, <<"#", "a", "\n", "b">>, <<"\t", "a", "\r", "\n">> }

\* String literals with backslash escapes, with a newline inside, and
\* directly after a newline
StringSources ==
    { <<"\"", "\\", "n", "\"">>, <<"\"", "a", "\\", "\"", "b", "\"">>,
      <<"\"", "\\", "\\", "\"">>, <<"\"", "\\", "t", "\\", "x", "\"", " ", "a">>,
      <<"x", "\n", "\"", "a", "\"">>, <<"\"", "a", "\n", "b", "\"", "c">>,
      <<"\n", "\n", "\"", "\\", "n", "\"">>, <<"\"", a_grave, "\"", "\"", "\"">> }

\* Characters no classifier takes, on the first line and on later ones,
\* directly after a newline and after spaces
UnknownSources ==
    { <<a_grave>>, <<"a", "\n", a_grave>>, <<"a", "\n", " ", a_grave, " ", "b">>,
      <<"~", "a">>, <<"a", "?", "?">>, <<"\"", "\n", "\"", "\n", "\n", "@", "\"">>,
      <<"1", "2", "$", "3">> }

\* Tokens directly after newlines, after newlines and spaces, and after a
\* single-line comment
NewlineSources ==
    { <<"a", "\n", "\n", "b">>, <<"a", " ", "\n", "\n", "b">>,
      <<" ", "\n", " ", "\n", "b">>, <<"a", "\n", " ", "b">>,
      <<"-", "-", "x", "\n", "\n", "b">>, <<"#", "\n", "\n", "\n", "1", "2">>,
      <<"\n", "\n", "=", "\n", "i", "n">> }

\* Numbers with a base prefix after any digit, with an empty digit run, at
\* the end of the source and before other tokens
NumberSources ==
    { <<"9", "X", "a", "B">>, <<"3", "b", "1", "0", "2">>, <<"1", "B", "2">>,
      <<"0", "x", "1">>, <<"1", "5", "x", "1", "F">>, <<"7", "b">>, <<"2", "x">>,
      <<" ", "0", "b", "1", "\n">>, <<"a", " ", "5", "x", "1", "F">>,
      <<"0", "x", "F", "f", "g", "1">>, <<"0", "X", "=", "1">>, <<"8", "b", "1", "1", "1", ".", "5">> }

\* Multi-line comments: nested, with markers inside quotes, with an escaped
\* quote, with a second end marker, over several lines, and unterminated
CommentSources ==
    { <<"-", "-", "[", "[", "a", "-", "-", "[", "[", "b", "]", "]", "c", "]", "]", "d">>,
      <<"-", "-", "[", "[", "\"", "]", "]", "\"", "]", "]">>,
      <<"-", "-", "[", "[", "\"", "-", "-", "[", "[", "\"", "]", "]", "x">>,
      <<"-", "-", "[", "[", "\\", "\"", "]", "]">>,
      <<"-", "-", "[", "[", "a", "]", "]", "b", "]", "]">>,
      <<"-", "-", "[", "[", "-", "-", "[", "[", "a", "]", "]">>,
      <<"-", "-", "[", "[", "\"", "\\", "\"", "]", "]", "\"", "]", "]", " ">>,
      <<"a", "\n", "-", "-", "[", "[", "\n", "-", "-", "[", "[", "\n", "]", "]", "\n", "]", "]", "\n", "b">>,
      <<"-", "-", "[", "[", "]", "]">>,
      <<"x", " ", "-", "-", "[", "[", " ", "\"", " ", "]", "]">> }

\* The sources run is started on, per configuration
Sources(cfg) ==
    IF cfg = LUA_CONFIG
    THEN {SourceA, SourceB, SourceC, SourceD} \cup KeywordBoundarySources(cfg)
            \cup ExtraSources \cup StringSources \cup UnknownSources
            \cup NewlineSources \cup NumberSources \cup CommentSources
            \cup FragSources(MaxFrags)
    ELSE KeywordBoundarySources(cfg) \cup ExtraSources \cup StringSources
            \cup UnknownSources \cup NewlineSources \cup NumberSources
            \cup CommentSources

(***************************************************************************)
(* The run                                                                 *)
(***************************************************************************)
Self == [start |-> start, current |-> current, line |-> line]
Data == [token_types |-> token_types, token_lines |-> token_lines,
         token_start |-> token_start, token_len |-> token_len]

\* Scanner::default(), ScannerData::default(), and a configuration
Init ==
    /\ config \in Configs
    /\ source = <<>>
    /\ start = 0 /\ current = 0 /\ line = 0
    /\ token_types = <<>> /\ token_lines = <<>>
    /\ token_start = <<>> /\ token_len = <<>>
    /\ result = [kind |-> "Idle"]

\* The head of run (lines 118-122): decode the source, reset the cursor
RunStart ==
    /\ result.kind = "Idle"
    /\ \E text \in Sources(config) :
          source' = text
    /\ current' = 0 /\ line' = 1 /\ start' = 0
    /\ result' = [kind |-> "Running"]
    /\ UNCHANGED <<config, token_types, token_lines, token_start, token_len>>

\* The cursor and the output record after a call
Leaves(self, data) ==
    /\ start' = self.start /\ current' = self.current /\ line' = self.line
    /\ token_types' = data.token_types /\ token_lines' = data.token_lines
    /\ token_start' = data.token_start /\ token_len' = data.token_len

\* The arms of the match in run (lines 124-130), on the answer r of
\* scan_token.  Eof: exit the loop, Ok(())
EofArm(r) ==
    /\ r.res = "Ok" /\ r.token.type = "Eof"
    /\ Leaves(r.self, r.data)
    /\ result' = [kind |-> "Ok"]

\* The Ignore arm without the reset of self.start
IgnoreArm_keeping_start(r) ==
    /\ r.res = "Ok" /\ r.token.type = "Ignore"
    /\ Leaves(r.self, r.data)
    /\ UNCHANGED result

\* Ignore: self.start = self.current
IgnoreArm(r) ==
    /\ r.res = "Ok" /\ r.token.type = "Ignore"
    /\ Leaves([r.self EXCEPT !.start = r.self.current], r.data)
    /\ UNCHANGED result

\* The NewLine arm falling into the arm that records the token
NewLineArm_recording(r) ==
    /\ r.res = "Ok" /\ r.token.type = "NewLine"
    /\ Leaves(add_token(r.self, r.token, r.data).self, add_token(r.self, r.token, r.data).data)
    /\ UNCHANGED result

\* The NewLine arm with the reset of self.start that the Ignore arm has
NewLineArm_resetting_start(r) ==
    /\ r.res = "Ok" /\ r.token.type = "NewLine"
    /\ Leaves([r.self EXCEPT !.start = r.self.current], r.data)
    /\ UNCHANGED result

\* NewLine: nothing more is done
NewLineArm(r) ==
    /\ r.res = "Ok" /\ r.token.type = "NewLine"
    /\ Leaves(r.self, r.data)
    /\ UNCHANGED result

\* The entry add_token appends and the cursor it leaves
Added(added) == Leaves(added.self, added.data)

\* Any other token: add_token
AddTokenArm(r) ==
    /\ r.res = "Ok" /\ r.token.type \notin {"Eof", "Ignore", "NewLine"}
    /\ Added(add_token(r.self, r.token, r.data))
    /\ UNCHANGED result

\* Err: run returns it (the ? operator)
ErrArm(r) ==
    /\ r.res = "Err"
    /\ Leaves(r.self, r.data)
    /\ result' = r.err

\* A panic unwinds run
PanicArm(r) ==
    /\ r.res = "Panic"
    /\ Leaves(r.self, r.data)
    /\ result' = [kind |-> "Panic", msg |-> r.msg]

\* One turn of the loop of run where scan_token returns Eof
RunEof ==
    /\ result.kind = "Running"
    /\ \E overflow_checks \in BOOLEAN : EofArm(scan_token(Self, Data, overflow_checks))
    /\ UNCHANGED <<source, config>>

\* One turn where scan_token returns Ignore
RunIgnore ==
    /\ result.kind = "Running"
    /\ \E overflow_checks \in BOOLEAN : IgnoreArm(scan_token(Self, Data, overflow_checks))
    /\ UNCHANGED <<source, config>>

\* One turn where scan_token returns NewLine
RunNewLine ==
    /\ result.kind = "Running"
    /\ \E overflow_checks \in BOOLEAN : NewLineArm(scan_token(Self, Data, overflow_checks))
    /\ UNCHANGED <<source, config>>

\* One turn where scan_token returns a token to record
RunAddToken ==
    /\ result.kind = "Running"
    /\ \E overflow_checks \in BOOLEAN : AddTokenArm(scan_token(Self, Data, overflow_checks))
    /\ UNCHANGED <<source, config>>

\* One turn where scan_token returns an error
RunErr ==
    /\ result.kind = "Running"
    /\ \E overflow_checks \in BOOLEAN : ErrArm(scan_token(Self, Data, overflow_checks))
    /\ UNCHANGED <<source, config>>

\* One turn where scan_token panics
RunPanic ==
    /\ result.kind = "Running"
    /\ \E overflow_checks \in BOOLEAN : PanicArm(scan_token(Self, Data, overflow_checks))
    /\ UNCHANGED <<source, config>>

Next ==
    \/ RunStart
    \/ RunEof
    \/ RunIgnore
    \/ RunNewLine
    \/ RunAddToken
    \/ RunErr
    \/ RunPanic

Spec == Init /\ [][Next]_vars

(***************************************************************************)
(* Properties                                                              *)
(***************************************************************************)
NumTokens == Len(token_types)
Failed == result.kind \in {"UnknownToken", "UnexpectedEof"}

\* The entries 1..n of the four sequences are the same before and after a step
PrefixKept(n) ==
    /\ Len(token_types') >= n /\ Len(token_start') >= n
    /\ Len(token_len') >= n /\ Len(token_lines') >= n
    /\ \A i \in 1..n :
          /\ token_types'[i] = token_types[i]
          /\ token_start'[i] = token_start[i]
          /\ token_len'[i] = token_len[i]
          /\ token_lines'[i] = token_lines[i]

\* C1: in every state of a run started on an empty record (after each turn
\* of the loop, at a successful return and at a return with UnknownToken or
\* UnexpectedEof) token_types, token_start, token_len and token_lines have
\* the same length.
C1_SameLength ==
    /\ Len(token_start) = Len(token_types)
    /\ Len(token_len) = Len(token_types)
    /\ Len(token_lines) = Len(token_types)

\* A failed run whose record holds entries of add_token and the entry of the
\* failure path
C1_Witness == Failed /\ NumTokens >= 3

\* C2: the record is append-only: no step of a run, the failing one
\* included, changes or removes an entry that was appended before it, so a
\* failed run still holds every earlier token, unchanged and in order.
C2_AppendOnly == [][PrefixKept(NumTokens)]_vars

\* A run that fails with UnknownToken after two tokens were recorded
C2_Witness == result.kind = "UnknownToken" /\ NumTokens >= 3

\* The first position at or after p that holds no newline
RECURSIVE SkipNewlines(_)
SkipNewlines(p) ==
    IF p < source_len /\ At(p) = "\n" THEN SkipNewlines(p + 1) ELSE p

\* The content of a string literal whose raw text (after the opening quote,
\* with no unescaped quote in it) is raw
RECURSIVE Unescaped(_)
Unescaped(raw) ==
    IF raw = <<>> THEN <<>>
    ELSE IF Head(raw) = "\\"
    THEN IF Len(raw) = 1 THEN <<>>
         ELSE << (IF raw[2] = "n" THEN "\n" ELSE IF raw[2] = "t" THEN "\t" ELSE raw[2]) >>
                 \o Unescaped(SubSeq(raw, 3, Len(raw)))
    ELSE <<Head(raw)>> \o Unescaped(Tail(raw))

\* The last entry of the record of a run that returned UnexpectedEof
C3_LastEntry ==
    result.kind = "UnexpectedEof" =>
        /\ NumTokens >= 1
        /\ token_types[NumTokens].type = "StringLiteral"
        /\ token_types[NumTokens].text =
              Unescaped(SubSeq(source, SkipNewlines(token_start[NumTokens]) + 2, source_len))
        /\ token_len[NumTokens] = source_len - token_start[NumTokens] + 1
        /\ result.offset = token_start[NumTokens]
        /\ result.line = token_lines[NumTokens]

\* tests::while_typing
C3_WhileTyping ==
    (source = SourceC /\ config = LUA_CONFIG /\ result.kind # "Running") =>
        /\ result = [kind |-> "UnexpectedEof", line |-> 1, offset |-> 8]
        /\ token_types = << Keyword(<<"l", "o", "c", "a", "l">>), Identifier(<<"s">>),
                            Symbol(<<"=">>), StringLiteral(<<a_grave>>) >>
        /\ token_start = <<0, 6, 7, 8>>
        /\ token_len = <<5, 1, 1, 3>>

\* The step that returns UnexpectedEof appends exactly one entry, and no
\* step follows it
C3_OneMoreEntry ==
    /\ (result.kind = "Running" /\ result'.kind = "UnexpectedEof") =>
          (Len(token_types') = NumTokens + 1 /\ PrefixKept(NumTokens))
    /\ result.kind = "UnexpectedEof" => UNCHANGED vars

\* C3: when the input ends inside a string literal, run appends exactly one
\* more entry, a StringLiteral with the unescaped content read so far and
\* length = source length - recorded start + 1, and returns UnexpectedEof
\* with that entry's line and start; nothing is appended after it.  The
\* source of while_typing gives UnexpectedEof(1, 8), starts [0,6,7,8] and
\* lengths [5,1,1,3].
C3_UnexpectedEof ==
    /\ [](C3_LastEntry /\ C3_WhileTyping)
    /\ [][C3_OneMoreEntry]_vars

\* The run of while_typing has returned
C3_Witness == result.kind = "UnexpectedEof" /\ source = SourceC /\ NumTokens = 4

\* The span recorded for entry i, as a slice of the source
TokenSlice(i) == SubSeq(source, token_start[i] + 1, token_start[i] + token_len[i])

\* The slices of the entries i, i+1, ... in order, concatenated
RECURSIVE ConcatSlices(_)
ConcatSlices(i) ==
    IF i > NumTokens THEN <<>> ELSE TokenSlice(i) \o ConcatSlices(i + 1)

IsBlank(c) == is_space(c) \/ c = "\n"
NotBlank(c) == ~IsBlank(c)

\* C4 (under the configuration of the tests): on every source on which run
\* succeeds, every recorded slice lies
\* inside the source and the slices, concatenated in order, are the source
\* with every space, tab, carriage return and newline removed and all else
\* kept.
C4_Reconstruction ==
    (result.kind = "Ok" /\ config = LUA_CONFIG) =>
        /\ \A i \in 1..NumTokens : token_start[i] + token_len[i] <= source_len
        /\ ConcatSlices(1) = SelectSeq(source, NotBlank)

\* The number of newlines before position p
NewlinesBefore(p) == Cardinality({k \in 1..p : source[k] = "\n"})

\* C5 (under the configuration of the tests): the line recorded for every entry is the 1-based number of the line
\* that holds the token's first character (the recorded start lags behind
\* that character by the newlines that were skipped before it).
C5_LineOfFirstChar ==
    config = LUA_CONFIG =>
        \A i \in 1..NumTokens :
            token_lines[i] = 1 + NewlinesBefore(SkipNewlines(token_start[i]))

\* s is a prefix of the source at position p
IsPrefixAt(s, p) ==
    /\ p + Len(s) <= source_len
    /\ SubSeq(source, p + 1, p + Len(s)) = s

\* C6: offsets and lengths count characters, and the span of a single-line
\* comment is exactly its text: tests::unicode_works yields the five tokens
\* with starts [0,6,7,8,12] and lengths [5,1,1,3,10].
C6_UnicodeWorks ==
    (source = SourceB /\ config = LUA_CONFIG /\ result.kind # "Running") =>
          /\ result.kind = "Ok"
          /\ token_types = << Keyword(<<"l", "o", "c", "a", "l">>),
                            Identifier(<<"s">>),
                            Symbol(<<"=">>),
                            StringLiteral(<<a_grave>>),
                            Comment(<<"-", "-", " ", "c", "o", "m", "m", "e", "n", "t">>) >>
          /\ token_start = <<0, 6, 7, 8, 12>>
          /\ token_len = <<5, 1, 1, 3, 10>>
          /\ token_len[5] = Len(token_types[5].text)

\* C7: a terminated multi-line comment is one Comment entry from the first
\* character of the start marker through the last of the end marker, and
\* scanning goes on after the end marker: tests::multi_comments yields the
\* five tokens with starts [0,6,7,8,11] and lengths [5,1,1,2,13].
C7_MultiComments ==
    (source = SourceD /\ config = LUA_CONFIG /\ result.kind # "Running") =>
        /\ result.kind = "Ok"
        /\ token_types = << Keyword(<<"l", "o", "c", "a", "l">>),
                          Identifier(<<"s">>),
                          Symbol(<<"=">>),
                          StringLiteral(<<>>),
                          Comment(<<"-", "-", "[", "[", "c", "o", "m", "m", "e", "n", "t", "]", "]">>) >>
        /\ token_start = <<0, 6, 7, 8, 11>>
        /\ token_len = <<5, 1, 1, 2, 13>>

\* C8: whitespace runs and newlines produce no entries, and the keywords,
\* identifiers and symbols they separate are recorded in source order with
\* length equal to their text (a newline directly before a token is the
\* case left out: the claim has every newline followed by spaces):
\* tests::it_works yields its twelve tokens with lengths
\* [8,4,1,2,1,2,1,6,2,1,2,3].
C8_ItWorks ==
    /\ (source = SourceA /\ config = LUA_CONFIG /\ result.kind # "Running") =>
          /\ result.kind = "Ok"
          /\ token_types = << Keyword(<<"f", "u", "n", "c", "t", "i", "o", "n">>),
                            Identifier(<<"t", "e", "s", "t">>),
                            Symbol(<<"(">>),
                            Identifier(<<"p", "1">>),
                            Symbol(<<",">>),
                            Identifier(<<"p", "2">>),
                            Symbol(<<")">>),
                            Keyword(<<"r", "e", "t", "u", "r", "n">>),
                            Identifier(<<"p", "1">>),
                            Symbol(<<"+">>),
                            Identifier(<<"p", "2">>),
                            Keyword(<<"e", "n", "d">>) >>
          /\ token_len = <<8, 4, 1, 2, 1, 2, 1, 6, 2, 1, 2, 3>>
    /\ \A i \in 1..NumTokens :
          /\ token_types[i].type \notin {"Ignore", "NewLine"}
          /\ (/\ token_types[i].type \in {"Keyword", "Identifier", "Symbol"}
              /\ At(token_start[i]) # "\n") =>
                 /\ token_len[i] = Len(token_types[i].text)
                 /\ TokenSlice(i) = token_types[i].text
          /\ i > 1 => token_start[i - 1] < token_start[i]

\* The run of it_works has returned
C8_Witness == source = SourceA /\ result.kind = "Ok" /\ NumTokens = 12

\* The source is a keyword of the configuration followed by one
\* alphanumeric character
IsKeywordBoundarySource ==
    \E i \in 1..Len(config.keywords) :
        /\ Len(source) = Len(config.keywords[i]) + 1
        /\ SubSeq(source, 1, Len(source) - 1) = config.keywords[i]
        /\ is_alphanum(source[Len(source)])

IsKeyword(s) == \E i \in 1..Len(config.keywords) : config.keywords[i] = s

\* C9 as stated: a keyword followed by one alphanumeric character is
\* tokenized as exactly one Identifier, for every configured keyword.
C9_KeywordBoundary ==
    (IsKeywordBoundarySource /\ result.kind # "Running") =>
        /\ result.kind = "Ok"
        /\ token_types = <<Identifier(source)>>

\* C9, amended: a keyword k followed by one alphanumeric character c is
\* tokenized as exactly one Identifier(k+c) unless k+c is itself a
\* configured keyword.
C9_KeywordBoundaryAmended ==
    (IsKeywordBoundarySource /\ ~IsKeyword(source) /\ result.kind # "Running") =>
        /\ result.kind = "Ok"
        /\ token_types = <<Identifier(source)>>
        /\ token_start = <<0>>
        /\ token_len = <<Len(source)>>

\* The run on "function" followed by a digit has returned
C9_Witness ==
    /\ source = <<"f", "u", "n", "c", "t", "i", "o", "n", "1">>
    /\ result.kind = "Ok" /\ NumTokens = 1

\* C10: a Symbol entry holds the first entry of config.symbols, in list
\* order, that is a character-by-character prefix of the source where the
\* symbol was matched (a candidate longer than the rest of the input is no
\* prefix); lengths are not compared.  With ".." listed before ".", the
\* input ".." yields the one entry Symbol("..").
C10_FirstSymbolWins ==
    /\ \A i \in 1..NumTokens :
          token_types[i].type = "Symbol" =>
              LET s == token_types[i].text
                  p == token_start[i] + token_len[i] - Len(s)
              IN  \E j \in 1..Len(config.symbols) :
                     /\ config.symbols[j] = s
                     /\ IsPrefixAt(s, p)
                     /\ \A k \in 1..(j - 1) : ~IsPrefixAt(config.symbols[k], p)
    /\ (source = <<".", ".">> /\ config = LUA_CONFIG /\ result.kind # "Running") =>
          /\ result.kind = "Ok"
          /\ token_types = <<Symbol(<<".", ".">>)>>

\* The run on ".." has returned, under the configuration that lists "..."
\* and ".." before "."
C10_Witness ==
    /\ source = <<".", ".">> /\ config = LUA_CONFIG
    /\ result.kind = "Ok" /\ NumTokens = 1

\* The number of backslashes of raw that start an escape, each of which
\* scan_string drops from the content
RECURSIVE EscapeCount(_)
EscapeCount(raw) ==
    IF raw = <<>> THEN 0
    ELSE IF Head(raw) = "\\"
    THEN 1 + (IF Len(raw) = 1 THEN 0 ELSE EscapeCount(SubSeq(raw, 3, Len(raw))))
    ELSE EscapeCount(Tail(raw))

\* C11 as stated: for every StringLiteral entry of a successful run the
\* recorded length is the number of characters of the content plus 2, and
\* the content has neither delimiting quote; also for literals with
\* backslash escapes.
C11_ContentPlusTwo ==
    result.kind = "Ok" =>
        \A i \in 1..NumTokens :
            token_types[i].type = "StringLiteral" =>
                /\ token_len[i] = Len(token_types[i].text) + 2
                /\ token_start[i] + token_len[i] <= source_len
                /\ token_types[i].text =
                      Unescaped(SubSeq(source, SkipNewlines(token_start[i]) + 2,
                                       token_start[i] + token_len[i] - 1))

\* C11, amended: for every StringLiteral entry of a successful run the
\* recorded span ends with the closing quote, the content is the unescaped
\* text between the two quotes (neither quote is in it), and the recorded
\* length is the number of characters of the content plus 2, plus one for
\* every backslash escape of the literal, plus one for every newline
\* between the recorded start and the opening quote.
C11_SpanOfLiteral ==
    result.kind = "Ok" =>
        \A i \in 1..NumTokens :
            token_types[i].type = "StringLiteral" =>
                LET open  == SkipNewlines(token_start[i])
                    close == token_start[i] + token_len[i] - 1
                    raw   == SubSeq(source, open + 2, close)
                IN  /\ close < source_len /\ open < close
                    /\ At(open) = "\"" /\ At(close) = "\""
                    /\ token_types[i].text = Unescaped(raw)
                    /\ token_len[i] = Len(token_types[i].text) + 2
                                        + EscapeCount(raw) + (open - token_start[i])

\* A successful run recorded a literal with a backslash escape that directly
\* follows two newlines
C11_Witness ==
    /\ source = <<"\n", "\n", "\"", "\\", "n", "\"">>
    /\ result.kind = "Ok" /\ NumTokens = 1
    /\ token_types[1] = StringLiteral(<<"\n">>)

\* The cursor is on the start marker of a multi-line comment whose depth
\* does not return to zero before the end of the source
EndsInsideComment ==
    /\ result.kind = "Running"
    /\ config.multi_line_cmt_start.some /\ config.multi_line_cmt_end.some
    /\ matches(config.multi_line_cmt_start.val, Self)
    /\ scan_multi_line_comment(config.multi_line_cmt_start.val,
                               config.multi_line_cmt_end.val, Self).ret = "None"

\* C12: when the input ends inside a multi-line comment, the turn of the
\* loop that meets the comment appends no entry and run returns normally,
\* with the tokens emitted before the comment and without a failure.
C12_UnterminatedComment ==
    [][EndsInsideComment =>
          /\ result'.kind \in {"Running", "Ok"}
          /\ token_types' = token_types /\ token_start' = token_start
          /\ token_len' = token_len /\ token_lines' = token_lines]_vars

\* Some symbol of the configuration is a prefix of the source at p
SymbolAt(p) == \E j \in 1..Len(config.symbols) : IsPrefixAt(config.symbols[j], p)

\* Some keyword of the configuration is a prefix of the source at p and is
\* followed by the end of the source or a non-alphanumeric character
BoundedKeywordAt(p) ==
    \E j \in 1..Len(config.keywords) :
        LET k == config.keywords[j]
        IN  /\ IsPrefixAt(k, p)
            /\ (p + Len(k) >= source_len \/ ~is_alphanum(At(p + Len(k))))

\* A comment starts at p
CommentAt(p) ==
    \/ /\ config.multi_line_cmt_start.some /\ config.multi_line_cmt_end.some
       /\ IsPrefixAt(config.multi_line_cmt_start.val, p)
    \/ /\ config.single_line_cmt.some
       /\ IsPrefixAt(config.single_line_cmt.val, p)

\* The character at p is matched by no classifier
NoClassifier(p) ==
    /\ p < source_len
    /\ ~CommentAt(p) /\ At(p) # "\n" /\ ~is_space(At(p))
    /\ ~SymbolAt(p) /\ ~BoundedKeywordAt(p)
    /\ At(p) # "\"" /\ ~is_alpha(At(p)) /\ ~is_digit(At(p))

\* The turn of the loop at a character no classifier takes, and the turns
\* that return UnknownToken
C13_Step ==
    /\ (result.kind = "Running" /\ NoClassifier(current)) =>
          result'.kind = "UnknownToken"
    /\ (result.kind = "Running" /\ result'.kind = "UnknownToken") =>
          /\ NoClassifier(current)
          /\ result' = [kind |-> "UnknownToken", line |-> line, offset |-> current]
          /\ token_start' = Append(token_start, current)
          /\ token_len' = Append(token_len, 1)
          /\ token_lines' = Append(token_lines, line)
          /\ Len(token_types') = NumTokens + 1 /\ PrefixKept(NumTokens)
          /\ current' = current /\ line' = line
    /\ Failed => UNCHANGED vars

\* The error of a run that returned UnknownToken
C13_Error ==
    result.kind = "UnknownToken" =>
        /\ result.offset = current /\ result.offset < source_len
        /\ result.line = 1 + NewlinesBefore(result.offset)
        /\ token_start[NumTokens] = result.offset /\ token_len[NumTokens] = 1

\* C13: when the character at the current position is matched by no
\* classifier, run stops at once and returns UnknownToken(line, offset) with
\* offset the index of that character and line the current line, having
\* recorded a one-character span at that offset; nothing after the character
\* is classified and nothing follows the error.
C13_FailFast == []C13_Error /\ [][C13_Step]_vars

\* A run stopped at a non-ASCII letter on line 2, directly after a newline
C13_Witness ==
    /\ source = <<"a", "\n", a_grave>>
    /\ result = [kind |-> "UnknownToken", line |-> 2, offset |-> 2]
    /\ token_start = <<0, 2>> /\ token_len = <<1, 1>>

\* run has returned: Ok(()) or one of the two errors
Returned == result.kind \in {"Ok", "UnknownToken", "UnexpectedEof"}

\* A turn of the loop that does not end the run moves current forward; no
\* turn moves start, current or line backward
C14_Progress ==
    result.kind = "Running" =>
        /\ result'.kind = "Running" => current' > current
        /\ start' >= start /\ current' >= current /\ line' >= line

\* start <= current, and the run is under way or has returned
C14_Bounds ==
    /\ start <= current
    /\ result.kind \in {"Idle", "Running"} \/ Returned

\* C14: run ends only by returning (success or a single error); every turn
\* of the loop that does not end the run strictly increases current, so at
\* most source-length turns are taken; start, current and line never
\* decrease and start <= current throughout.
C14_TerminationProgress == []C14_Bounds /\ [][C14_Progress]_vars

\* The part of C14 that is about the cursor alone
C14_CursorOnly == [](start <= current) /\ [][C14_Progress]_vars

\* The position of the first character of the line that holds position p
LineStart(p) ==
    LET nl == {k \in 1..p : source[k] = "\n"}
    IN  IF nl = {} THEN 0 ELSE CHOOSE k \in nl : \A j \in nl : j <= k

\* Position p is on the line numbered ln, at the offset col from its start
InLineAt(p, ln, col) ==
    /\ 1 + NewlinesBefore(p) = ln
    /\ p - LineStart(p) = col

\* C15: positions are relative to the line: the start recorded for a
\* keyword, identifier or symbol is the offset, in the line recorded for it,
\* of a place where its text stands; and the second field of a returned
\* error is the offset, in the line given by the first field, of the
\* character that was not recognised or of the opening quote of the
\* unterminated literal.  On any line, not only on line 1.
C15_LineRelative ==
    /\ \A i \in 1..NumTokens :
          token_types[i].type \in {"Keyword", "Identifier", "Symbol"} =>
              \E p \in 0..(source_len - 1) :
                  /\ IsPrefixAt(token_types[i].text, p)
                  /\ InLineAt(p, token_lines[i], token_start[i])
    /\ result.kind = "UnknownToken" =>
          \E p \in 0..(source_len - 1) :
              NoClassifier(p) /\ InLineAt(p, result.line, result.offset)
    /\ result.kind = "UnexpectedEof" =>
          \E p \in 0..(source_len - 1) :
              At(p) = "\"" /\ InLineAt(p, result.line, result.offset)

\* The kinds of token the scanner emits
TokenKinds == {"Symbol", "Identifier", "StringLiteral", "NumberLiteral", "Keyword", "Comment"}

\* C16 as stated: every entry of token_types, on successful and on failed
\* runs, is of one of the six token kinds; Ignore, NewLine, Eof and every
\* other kind are never stored.
C16_OnlyTokenKinds ==
    \A i \in 1..NumTokens : token_types[i].type \in TokenKinds

\* C16, amended: every entry of token_types is of one of the six token
\* kinds, except that the last entry of a run that returned UnknownToken is
\* of kind Unknown; Ignore, NewLine and Eof are never stored.
C16_TokenKindsOrUnknown ==
    /\ \A i \in 1..NumTokens :
          \/ token_types[i].type \in TokenKinds
          \/ /\ token_types[i] = Unknown
             /\ i = NumTokens /\ result.kind = "UnknownToken"
    /\ result.kind = "UnknownToken" => token_types[NumTokens] = Unknown

\* A run over spaces, newlines and tokens returned UnknownToken with the
\* Unknown entry after the entries of its tokens
C16_Witness ==
    /\ source = <<"a", "\n", " ", a_grave, " ", "b">>
    /\ result.kind = "UnknownToken"
    /\ token_types = <<Identifier(<<"a">>), Unknown>>

\* The pending start lags behind current by newlines only, and it stands on
\* the first newline that no entry before it has taken
C17_PendingNewlines ==
    result.kind = "Running" =>
        /\ \A k \in start..(current - 1) : At(k) = "\n"
        /\ start < current =>
              \/ start = 0
              \/ At(start - 1) # "\n"
              \/ /\ NumTokens > 0
                 /\ token_start[NumTokens] + token_len[NumTokens] = start

\* A turn at a space, tab or carriage return; a turn at a newline; a turn
\* that records a token
C17_Step ==
    result.kind = "Running" /\ current < source_len /\ ~CommentAt(current) =>
        /\ is_space(At(current)) =>
              /\ current' = SkipSpaces(current) /\ start' = current'
              /\ line' = line /\ result' = result /\ PrefixKept(NumTokens)
              /\ Len(token_types') = NumTokens
        /\ At(current) = "\n" =>
              /\ current' = current + 1 /\ line' = line + 1 /\ start' = start
              /\ result' = result /\ PrefixKept(NumTokens)
              /\ Len(token_types') = NumTokens
        /\ (result'.kind = "Running" /\ Len(token_types') = NumTokens + 1) =>
              /\ token_start'[NumTokens + 1] = start
              /\ token_len'[NumTokens + 1] = current' - start
              /\ current' - start > current - start
              /\ start' = current'

\* The tokens of "a", two newlines, "b" and of "a", newline, space, "b"
C17_Examples ==
    /\ (source = <<"a", "\n", "\n", "b">> /\ result.kind # "Running") =>
          /\ result.kind = "Ok"
          /\ token_start = <<0, 1>> /\ token_len = <<1, 3>>
    /\ (source = <<"a", "\n", " ", "b">> /\ result.kind # "Running") =>
          /\ result.kind = "Ok"
          /\ token_start = <<0, 3>> /\ token_len = <<1, 1>>

\* C17: an Ignore turn sets the pending start to the current position; a
\* NewLine turn advances current and line and leaves the pending start
\* alone.  So a token that directly follows one or more newlines is
\* recorded with the offset of the first of those newlines as its start and
\* with those newlines counted in its length.
C17_StartAsymmetry ==
    /\ [](C17_PendingNewlines /\ C17_Examples)
    /\ [][C17_Step]_vars

\* The token after two newlines was recorded from the first of them
C17_Witness ==
    /\ source = <<"a", "\n", "\n", "b">> /\ result.kind = "Ok"
    /\ token_types = <<Identifier(<<"a">>), Identifier(<<"b">>)>>
    /\ token_start[2] = 1 /\ token_len[2] = 3 /\ token_lines[2] = 3

\* A turn at a digit does not panic
C18_NoPanicAtDigit ==
    (result.kind = "Running" /\ current < source_len /\ is_digit(At(current))) =>
        result'.kind # "Panic"

\* The run on a single digit
C18_SingleDigit ==
    (source = <<"7">> /\ result.kind # "Running") =>
        /\ result.kind = "Ok"
        /\ token_types = <<NumberLiteral(<<"7">>, 7, 1)>>
        /\ token_start = <<0>> /\ token_len = <<1>>

\* C18: scan_number is safe on short sources: at a digit no turn of the
\* loop ends in a panic (no subtraction from the source length underflows
\* and no character at or beyond the end of the source is read), whatever
\* the length of the source; the source of one digit gives Ok with exactly
\* one NumberLiteral of length 1.
C18_ShortBuffers == []C18_SingleDigit /\ [][C18_NoPanicAtDigit]_vars

\* The digits of the bases up to 16, in lower and in upper case
LowerDigits == <<"0", "1", "2", "3", "4", "5", "6", "7", "8", "9", "a", "b", "c", "d", "e", "f">>
UpperDigits == <<"0", "1", "2", "3", "4", "5", "6", "7", "8", "9", "A", "B", "C", "D", "E", "F">>

IsBaseDigit(c, base) ==
    \E v \in 1..base : c = LowerDigits[v] \/ c = UpperDigits[v]

BaseDigitValue(c) ==
    (CHOOSE v \in 1..16 : c = LowerDigits[v] \/ c = UpperDigits[v]) - 1

\* The end of the longest run of digits of the base that starts at p
RECURSIVE DigitRunEnd(_, _)
DigitRunEnd(p, base) ==
    IF p < source_len /\ IsBaseDigit(At(p), base) THEN DigitRunEnd(p + 1, base) ELSE p

\* The integer that the digits denote in the base
RECURSIVE BaseValue(_, _)
BaseValue(digits, base) ==
    IF digits = <<>> THEN 0
    ELSE BaseValue(SubSeq(digits, 1, Len(digits) - 1), base) * base
            + BaseDigitValue(digits[Len(digits)])

\* The turn at a digit followed by the letter of a base and one more
\* character records the literal of that base
C19_PrefixedAt(lower, upper, base) ==
    (/\ result.kind = "Running" /\ current + 2 < source_len
     /\ is_digit(At(current)) /\ At(current + 1) \in {lower, upper}) =>
        LET run    == DigitRunEnd(current + 2, base)
            digits == SubSeq(source, current + 3, run)
        IN  /\ result'.kind = "Running"
            /\ current' = run
            /\ Len(token_types') = NumTokens + 1 /\ PrefixKept(NumTokens)
            /\ token_types'[NumTokens + 1] =
                  NumberLiteral(<<"0", lower>> \o digits, BaseValue(digits, base), 1)

C19_Step == C19_PrefixedAt("x", "X", 16) /\ C19_PrefixedAt("b", "B", 2)

\* The runs on 5x1F and on 1B2
C19_Examples ==
    /\ (source = <<"5", "x", "1", "F">> /\ result.kind # "Running") =>
          /\ result.kind = "Ok"
          /\ token_types = <<NumberLiteral(<<"0", "x", "1", "F">>, 31, 1)>>
    /\ (source = <<"1", "B", "2">> /\ result.kind \notin {"Running", "Panic"}) =>
          token_types[1] = NumberLiteral(<<"0", "b">>, 0, 1)

\* C19: at a digit (any digit, not only 0) directly followed by x or X
\* (b or B) and at least one more character, the scanner skips the two
\* characters, takes the longest run of hexadecimal (binary) digits and
\* records one NumberLiteral with the text 0x (0b) followed by exactly
\* those digits and with their value in base 16 (2); 5x1F gives
\* NumberLiteral("0x1F", 31), an empty run gives the text 0x or 0b and 0.
C19_BasePrefixed == []C19_Examples /\ [][C19_Step]_vars

\* The run on 5x1F has returned
C19_Witness ==
    /\ source = <<"5", "x", "1", "F">> /\ result.kind = "Ok"
    /\ token_types = <<NumberLiteral(<<"0", "x", "1", "F">>, 31, 1)>>
    /\ token_len = <<4>>

\* The last position before q, from s on, that holds no newline; -1 if none
RECURSIVE PrevNonNewline(_, _)
PrevNonNewline(s, q) ==
    IF q <= s THEN -1
    ELSE IF At(q - 1) # "\n" THEN q - 1 ELSE PrevNonNewline(s, q - 1)

\* In the comment that starts at s, the character at q is escaped: the
\* character before it (newlines skipped) is a backslash that is not
\* escaped itself
RECURSIVE Escaped(_, _)
Escaped(s, q) ==
    LET b == PrevNonNewline(s, q)
    IN  b >= 0 /\ At(b) = "\\" /\ ~Escaped(s, b)

\* In the comment that starts at s, position p lies inside a quoted string:
\* an odd number of unescaped double quotes precedes it
Quoted(s, p) ==
    Cardinality({q \in s..(p - 1) : At(q) = "\"" /\ ~Escaped(s, q)}) % 2 = 1

\* In the comment that starts at s, read from p on at the given depth: the
\* position of the end marker that returns the depth to zero, -1 if the
\* source ends first
RECURSIVE BalancingEnd(_, _, _)
BalancingEnd(s, p, depth) ==
    LET multi_start == config.multi_line_cmt_start.val
        multi_end   == config.multi_line_cmt_end.val
    IN  IF p >= source_len THEN -1
        ELSE IF ~Quoted(s, p) /\ IsPrefixAt(multi_end, p)
        THEN IF depth = 1 THEN p
             ELSE BalancingEnd(s, p + Len(multi_end), depth - 1)
        ELSE IF ~Quoted(s, p) /\ IsPrefixAt(multi_start, p)
        THEN BalancingEnd(s, p + Len(multi_start), depth + 1)
        ELSE BalancingEnd(s, p + 1, depth)

\* The turn at the start marker of a multi-line comment
C20_Step ==
    (/\ result.kind = "Running"
     /\ config.multi_line_cmt_start.some /\ config.multi_line_cmt_end.some
     /\ IsPrefixAt(config.multi_line_cmt_start.val, current)) =>
        LET e == BalancingEnd(current, current, 0)
        IN  IF e >= 0
            THEN /\ result'.kind = "Running"
                 /\ Len(token_types') = NumTokens + 1 /\ PrefixKept(NumTokens)
                 /\ token_types'[NumTokens + 1].type = "Comment"
                 /\ token_start'[NumTokens + 1] = start
                 /\ e < current' /\ current' <= e + Len(config.multi_line_cmt_end.val)
            ELSE token_types' = token_types

\* Where the entry after the comment starts: inside the end marker that
\* balances the outermost start marker
C20_Examples ==
    (config = LUA_CONFIG /\ result.kind = "Ok") =>
        /\ source = <<"-", "-", "[", "[", "a", "-", "-", "[", "[", "b", "]", "]", "c", "]", "]", "d">>
              => (token_types[1].type = "Comment" /\ token_start = <<0, 14, 15>>)
        /\ source = <<"-", "-", "[", "[", "\"", "]", "]", "\"", "]", "]">>
              => (token_types[1].type = "Comment" /\ token_start = <<0, 9>>)
        /\ source = <<"-", "-", "[", "[", "\"", "-", "-", "[", "[", "\"", "]", "]", "x">>
              => (token_types[1].type = "Comment" /\ token_start = <<0, 11, 12>>)
        /\ source = <<"-", "-", "[", "[", "\\", "\"", "]", "]">>
              => (token_types[1].type = "Comment" /\ token_start = <<0, 7>>)
        /\ source = <<"-", "-", "[", "[", "a", "]", "]", "b", "]", "]">>
              => (token_types[1].type = "Comment" /\ token_start[2] = 6)

\* C20: inside a multi-line comment every start marker outside a quoted
\* string adds one to the depth and every end marker outside a quoted
\* string takes one from it; the Comment entry is completed at the end
\* marker that returns the depth to zero and at no other.  Markers between
\* an unescaped double quote and the next unescaped double quote leave the
\* depth alone, and a backslash keeps the double quote after it from
\* opening or closing a quoted string.
C20_Nesting == []C20_Examples /\ [][C20_Step]_vars

\* The run on a comment with a nested comment has returned
C20_Witness ==
    /\ source = <<"-", "-", "[", "[", "a", "-", "-", "[", "[", "b", "]", "]", "c", "]", "]", "d">>
    /\ config = LUA_CONFIG /\ result.kind = "Ok"
    /\ NumTokens = 3 /\ token_types[1].type = "Comment" /\ token_start[2] = 14

\* In the string literal whose opening quote is at open, the character at q
\* follows a backslash that is not escaped itself
RECURSIVE StringEscaped(_, _)
StringEscaped(open, q) ==
    q > open + 1 /\ At(q - 1) = "\\" /\ ~StringEscaped(open, q - 1)

\* The positions of the unescaped double quotes after the opening quote
ClosingQuotes(open) ==
    {q \in (open + 1)..(source_len - 1) : At(q) = "\"" /\ ~StringEscaped(open, q)}

\* What one character of a string literal contributes to its content
Contribution(open, q) ==
    IF ~StringEscaped(open, q)
    THEN IF At(q) = "\\" THEN <<>> ELSE <<At(q)>>
    ELSE IF At(q) = "n" THEN <<"\n">>
    ELSE IF At(q) = "t" THEN <<"\t">>
    ELSE <<At(q)>>

\* The contributions of the characters from q up to, not including, close
RECURSIVE ContentFrom(_, _, _)
ContentFrom(open, q, close) ==
    IF q >= close THEN <<>>
    ELSE Contribution(open, q) \o ContentFrom(open, q + 1, close)

\* The turn at the opening quote of a string literal
C21_Step ==
    (result.kind = "Running" /\ current < source_len /\ At(current) = "\""
     /\ ~CommentAt(current) /\ ~SymbolAt(current)) =>
        IF ClosingQuotes(current) = {}
        THEN result'.kind = "UnexpectedEof"
        ELSE LET close == CHOOSE q \in ClosingQuotes(current) :
                              \A r \in ClosingQuotes(current) : q <= r
             IN  /\ result'.kind = "Running"
                 /\ current' = close + 1
                 /\ Len(token_types') = NumTokens + 1 /\ PrefixKept(NumTokens)
                 /\ token_types'[NumTokens + 1] =
                       StringLiteral(ContentFrom(current, current + 1, close))
                 /\ line' = line + Cardinality({q \in (current + 1)..(close - 1) :
                                                   At(q) = "\n"})

\* The contents of four literals
C21_Examples ==
    result.kind = "Ok" =>
        /\ source = <<"\"", "\\", "t", "\\", "x", "\"", " ", "a">> =>
              token_types = <<StringLiteral(<<"\t", "x">>), Identifier(<<"a">>)>>
        /\ source = <<"\"", "a", "\\", "\"", "b", "\"">> =>
              token_types = <<StringLiteral(<<"a", "\"", "b">>)>>
        /\ source = <<"\"", "\\", "\\", "\"">> =>
              token_types = <<StringLiteral(<<"\\">>)>>
        /\ source = <<"\"", "\\", "n", "\"">> =>
              (token_types = <<StringLiteral(<<"\n">>)>> /\ line = 1)
        /\ source = <<"\"", "a", "\n", "b", "\"", "c">> =>
              /\ token_types = <<StringLiteral(<<"a", "\n", "b">>), Identifier(<<"c">>)>>
              /\ line = 2

\* C21: in a string literal a backslash followed by n contributes a
\* newline and a backslash followed by t a tab; a backslash followed by any
\* other character (a double quote and a backslash included) contributes
\* that character alone and does not end the literal; an unescaped double
\* quote ends the literal; every other character is copied unchanged, and
\* each newline in the literal adds one to the line counter.
C21_Unescaping == []C21_Examples /\ [][C21_Step]_vars

\* The run on a literal with the escapes t and x has returned
C21_Witness ==
    /\ source = <<"\"", "\\", "t", "\\", "x", "\"", " ", "a">>
    /\ result.kind = "Ok" /\ NumTokens = 2
    /\ token_types[1] = StringLiteral(<<"\t", "x">>) /\ token_len[1] = 6

\* C22: recorded spans are in order and do not overlap: in every state of
\* a run started on an empty record, token_start[i] + token_len[i] <=
\* token_start[i+1] for all consecutive entries, the entry appended on the
\* UnknownToken and UnexpectedEof paths included.
C22_NoOverlap ==
    \A i \in 1..(NumTokens - 1) :
        token_start[i] + token_len[i] <= token_start[i + 1]

\* A failed run whose record holds a gap between two spans and two spans
\* that touch, the last of them appended by the failure path
C22_Witness ==
    /\ Failed /\ NumTokens = 4
    /\ token_start[1] + token_len[1] < token_start[2]
    /\ token_start[3] + token_len[3] = token_start[4]

====
